---- MODULE Spec2Model ----
(***************************************************************************)
(* A model of find_dupes: the content clusterer (group_by_content.rs), the *)
(* directory walker (group_by_inode.rs) and the size-spec parser (main.rs).*)
(* Each component has its own specification over the shared variables; a   *)
(* specification leaves the variables of the other components untouched.   *)
(***************************************************************************)
EXTENDS Integers, Sequences, FiniteSets, TLC

\* ------------------------------------------------------------------------
\* Bounds of the model
\* ------------------------------------------------------------------------
\* Candidate files handed to group_by_content.
MaxFiles == 3
\* Candidate groups in the initial input_queue.
MaxGroups == 2

\* Candidates of the one candidate group handed to regroup on its own.
MaxCandidates == 4

\* Characters of a freely chosen MIN_SIZE argument.
MaxLen == 3

\* Full chunks of the longest file handed to compare_file_bytes on its own.
MaxChunks == 2

\* Nodes (device, inode pairs) of the hierarchy the walker visits.
MaxNodes == 3
\* Directory entries of the hierarchy.
MaxEntries == 3

\* ------------------------------------------------------------------------
\* Program constants and value domains
\* ------------------------------------------------------------------------
\* group_by_content.rs: const BUFFER_LEN (1 MiB in the source, scaled down so
\* that a file spans a full chunk and a final partial chunk).
BUFFER_LEN == 2

Bytes == {0, 1}

\* The lengths of the candidate files: empty, and one full chunk followed by
\* a partial one.
ContentLens == {0, BUFFER_LEN + 1}

\* The contents of the candidate files: of each length, the all-zero content
\* and the contents that differ from it in one byte, so that two contents of
\* one length differ in the first chunk, in the final partial chunk or in both.
Contents == UNION {{c \in [1..n -> Bytes] : Cardinality({i \in 1..n : c[i] # 0}) <= 1} :
                    n \in ContentLens}

Files == 1..MaxFiles

Min(a, b) == IF a < b THEN a ELSE b

VARIABLES
    \* --- content clusterer (GroupByContentIter and its environment) ---
    content,        \* the filesystem: the bytes behind each candidate's paths[0]
    input_groups,   \* the argument of group_by_content (kept for reference)
    input_queue,    \* GroupByContentIter.input_queue
    output_queue,   \* GroupByContentIter.output_queue
    last,           \* what the last call of next() returned
    yielded,        \* the groups returned so far by next(), in order
    cmp_log,        \* every call of compare_file_bytes so far: <<path1, path2, result>>
    cmp_result,     \* what compare_file_bytes returned when called on its own
    cmp_reads       \* the iterations of its loop in that call

VARIABLES
    \* --- directory walker (GroupByInodeIter and its environment) ---
    fs,             \* the hierarchy: the kind and size of each node, the directory entries
    min_size,       \* GroupByInodeIter.min_size
    file_queue,     \* GroupByInodeIter.file_queue
    dir_queue,      \* GroupByInodeIter.dir_queue
    seen_dirs,      \* GroupByInodeIter.seen_dirs
    wpc,            \* "idle": between calls of next(); "while": at the test of its
                    \* while loop; "body": at the start of the loop body
    wlast,          \* what the last call of next() returned
    w_yielded,      \* the records returned so far by next()
    w_dup,          \* some record has been returned twice
    expanded,       \* the nodes popped from dir_queue and listed so far
    reexpanded,     \* the nodes popped from dir_queue and listed more than once
    pushed_seen,    \* the nodes pushed to dir_queue when they had already been expanded
    failed_list,    \* the directory paths whose listing failed
    failed_child    \* the child paths whose entry or metadata could not be read

VARIABLES
    \* --- size-spec parser (parse_file_size_spec and its caller) ---
    p_input,        \* the MIN_SIZE argument, a sequence of characters
    p_build,        \* "debug": overflow checks compiled in; "release": not
    p_result        \* what parse_file_size_spec returned

cvars == <<content, input_groups, input_queue, output_queue, last, yielded, cmp_log,
           cmp_result, cmp_reads>>

wvars == <<fs, min_size, file_queue, dir_queue, seen_dirs, wpc, wlast, w_yielded, w_dup,
           expanded, reexpanded, pushed_seen, failed_list, failed_child>>

pvars == <<p_input, p_build, p_result>>

vars == <<cvars, wvars, pvars>>

\* The variables of a component whose specification is not the one running.
ClusterIdle ==
    /\ content = <<>> /\ input_groups = <<>> /\ input_queue = <<>> /\ output_queue = <<>>
    /\ last = [kind |-> "NotCalled", item |-> <<>>] /\ yielded = <<>> /\ cmp_log = <<>>
    /\ cmp_result = "NotCalled" /\ cmp_reads = 0

WalkerIdle ==
    /\ fs = <<>> /\ min_size = 0 /\ file_queue = <<>> /\ dir_queue = <<>> /\ seen_dirs = {}
    /\ wpc = "idle" /\ wlast = [kind |-> "NotCalled", item |-> <<>>]
    /\ w_yielded = {} /\ w_dup = FALSE /\ expanded = {} /\ reexpanded = {}
    /\ pushed_seen = {} /\ failed_list = {} /\ failed_child = {}

ParserIdle ==
    /\ p_input = <<>> /\ p_build = "release"
    /\ p_result = [kind |-> "NotCalled", val |-> <<>>, why |-> ""]

\* ------------------------------------------------------------------------
\* group_by_content.rs
\* ------------------------------------------------------------------------

\* The record the clusterer receives for the candidate stored at path f: one
\* record per physical file, with the size of its content.
DedupFile(f) ==
    [paths |-> <<f>>, size |-> Len(content[f]), device |-> 0, inode |-> f, nlink |-> 1]

\* file.read(&mut buf): the bytes delivered by one read at offset pos.  A read
\* of a regular file fills the buffer unless the end of the file is reached.
read(data, pos) == SubSeq(data, pos + 1, Min(pos + BUFFER_LEN, Len(data)))

\* The buffer after a read: the bytes read overwrite its beginning, the rest
\* keeps what earlier reads left there.
fill(buf, chunk) ==
    [i \in 1..BUFFER_LEN |-> IF i <= Len(chunk) THEN chunk[i] ELSE buf[i]]

\* compare_loop with the buffers compared only after a full read: the content
\* of the final partial chunk is not looked at.
compare_loop_FullChunksOnly(data1, data2, pos1, pos2, buf1, buf2) ==
    LET n == Min(Len(data1), Len(data2))
        whole == (n \div BUFFER_LEN) * BUFFER_LEN
    IN  /\ Len(data1) = Len(data2)
        /\ SubSeq(data1, 1, whole) = SubSeq(data2, 1, whole)

\* The loop of compare_file_bytes: TRUE iff it ends with Ok(true).
RECURSIVE compare_loop(_, _, _, _, _, _)
compare_loop(data1, data2, pos1, pos2, buf1, buf2) ==
    LET chunk1 == read(data1, pos1)
        chunk2 == read(data2, pos2)
        read_count1 == Len(chunk1)
        read_count2 == Len(chunk2)
        b1 == fill(buf1, chunk1)
        b2 == fill(buf2, chunk2)
    IN  IF read_count1 # read_count2 \/ b1 # b2 THEN FALSE
        ELSE IF read_count1 # BUFFER_LEN THEN TRUE
        ELSE compare_loop(data1, data2, pos1 + read_count1, pos2 + read_count2, b1, b2)

\* The iterations of the loop of compare_file_bytes: each reads one chunk of
\* either file.
RECURSIVE compare_reads(_, _, _, _, _, _)
compare_reads(data1, data2, pos1, pos2, buf1, buf2) ==
    LET chunk1 == read(data1, pos1)
        chunk2 == read(data2, pos2)
        read_count1 == Len(chunk1)
        read_count2 == Len(chunk2)
        b1 == fill(buf1, chunk1)
        b2 == fill(buf2, chunk2)
    IN  IF read_count1 # read_count2 \/ b1 # b2 THEN 1
        ELSE IF read_count1 # BUFFER_LEN THEN 1
        ELSE 1 + compare_reads(data1, data2, pos1 + read_count1, pos2 + read_count2, b1, b2)

\* compare_file_bytes(path1, path2) while the files of `unreadable` cannot be
\* opened or read: "Err", "Ok(true)" or "Ok(false)".
compare_file_bytes(path1, path2, unreadable) ==
    IF path1 \in unreadable \/ path2 \in unreadable THEN "Err"
    ELSE LET zero == [i \in 1..BUFFER_LEN |-> 0]
         IN  IF compare_loop(content[path1], content[path2], 0, 0, zero, zero)
             THEN "Ok(true)" ELSE "Ok(false)"

\* find_group that gives up after the first group that does not match.
find_group_FirstOnly(candidate, groups, i, unreadable, log) ==
    IF i > Len(groups) THEN [index |-> 0, log |-> log]
    ELSE LET p1 == candidate.paths[1]
             p2 == groups[i][1].paths[1]
             r == compare_file_bytes(p1, p2, unreadable)
             log2 == Append(log, <<p1, p2, r>>)
         IN  IF r = "Ok(true)" THEN [index |-> i, log |-> log2]
             ELSE [index |-> 0, log |-> log2]

\* The inner `for group in &mut groups` of regroup, from group i on: the
\* index of the group the candidate joins (0: none) and the comparisons made.
RECURSIVE find_group(_, _, _, _, _)
find_group(candidate, groups, i, unreadable, log) ==
    IF i > Len(groups) THEN [index |-> 0, log |-> log]
    ELSE LET p1 == candidate.paths[1]
             p2 == groups[i][1].paths[1]
             r == compare_file_bytes(p1, p2, unreadable)
             log2 == Append(log, <<p1, p2, r>>)
         IN  IF r = "Ok(true)" THEN [index |-> i, log |-> log2]
             ELSE find_group(candidate, groups, i + 1, unreadable, log2)

\* The `while let Some(candidate) = candidates.pop()` loop of regroup.
RECURSIVE regroup_loop(_, _, _, _)
regroup_loop(candidates, groups, unreadable, log) ==
    IF candidates = <<>> THEN [groups |-> groups, log |-> log]
    ELSE LET candidate == candidates[Len(candidates)]
             rest == SubSeq(candidates, 1, Len(candidates) - 1)
             found == find_group(candidate, groups, 1, unreadable, log)
         IN  IF found.index > 0
             THEN regroup_loop(rest,
                      [groups EXCEPT ![found.index] = Append(@, candidate)],
                      unreadable, found.log)
             ELSE regroup_loop(rest, Append(groups, <<candidate>>),
                      unreadable, found.log)

\* regroup without the final groups.retain(|g| g.len() > 1).
regroup_NoRetain(candidates, unreadable) ==
    regroup_loop(candidates, <<>>, unreadable, <<>>)

\* regroup(candidates): the clusters of 2 or more members, and the
\* comparisons it made.
regroup(candidates, unreadable) ==
    LET r == regroup_loop(candidates, <<>>, unreadable, <<>>)
    IN  [groups |-> SelectSeq(r.groups, LAMBDA g : Len(g) > 1), log |-> r.log]

None == [kind |-> "None", item |-> <<>>]
Some(x) == [kind |-> "Some", item |-> x]

\* The candidate groups of a queue poured into one list.
RECURSIVE concat_groups(_)
concat_groups(q) == IF q = <<>> THEN <<>> ELSE Head(q) \o concat_groups(Tail(q))

\* next_loop that hands regroup all the candidate groups of input_queue as
\* one list of candidates, whatever their sizes.
next_loop_Merged(inq, outq, unreadable, log) ==
    LET r == IF outq = <<>> /\ inq # <<>> THEN regroup(concat_groups(inq), unreadable)
             ELSE [groups |-> <<>>, log |-> <<>>]
        out == outq \o r.groups
        left == IF outq = <<>> THEN <<>> ELSE inq
    IN  IF out = <<>>
        THEN [ret |-> [kind |-> "None", item |-> <<>>], inq |-> left, outq |-> out,
              log |-> log \o r.log]
        ELSE [ret |-> [kind |-> "Some", item |-> out[Len(out)]], inq |-> left,
              outq |-> SubSeq(out, 1, Len(out) - 1), log |-> log \o r.log]

\* next_loop that clusters every candidate group of input_queue before it
\* looks at output_queue.
RECURSIVE next_loop_Eager(_, _, _, _)
next_loop_Eager(inq, outq, unreadable, log) ==
    IF inq # <<>>
    THEN LET r == regroup(inq[Len(inq)], unreadable)
         IN  next_loop_Eager(SubSeq(inq, 1, Len(inq) - 1), outq \o r.groups,
                             unreadable, log \o r.log)
    ELSE IF outq = <<>>
    THEN [ret |-> [kind |-> "None", item |-> <<>>], inq |-> inq, outq |-> outq, log |-> log]
    ELSE [ret |-> [kind |-> "Some", item |-> outq[Len(outq)]], inq |-> inq,
          outq |-> SubSeq(outq, 1, Len(outq) - 1), log |-> log]

\* The body of GroupByContentIter::next: the outer while loop, with the queues
\* it leaves and the value it returns.
RECURSIVE next_loop(_, _, _, _)
next_loop(inq, outq, unreadable, log) ==
    IF inq = <<>> /\ outq = <<>>
    THEN [ret |-> None, inq |-> inq, outq |-> outq, log |-> log]
    ELSE IF outq # <<>>
    THEN LET output_group == outq[Len(outq)]
             outq2 == SubSeq(outq, 1, Len(outq) - 1)
         IN  IF output_group # <<>>
             THEN [ret |-> Some(output_group), inq |-> inq, outq |-> outq2, log |-> log]
             ELSE next_loop(inq, outq2, unreadable, log)
    ELSE LET input_group == inq[Len(inq)]
             inq2 == SubSeq(inq, 1, Len(inq) - 1)
             r == regroup(input_group, unreadable)
         IN  next_loop(inq2, outq \o r.groups, unreadable, log \o r.log)

\* The iterator run to its end on readable files: the groups that the calls
\* of next() return before None, in order.
RECURSIVE drain(_, _, _)
drain(inq, outq, acc) ==
    LET r == next_loop(inq, outq, {}, <<>>)
    IN  IF r.ret.kind = "None" THEN acc
        ELSE drain(r.inq, r.outq, Append(acc, r.ret.item))

\* GroupByContentNext that empties output_queue when it returns: the clusters
\* still pending are lost.
GroupByContentNext_ClearOutput(unreadable) ==
    LET r == next_loop(input_queue, output_queue, unreadable, <<>>)
    IN  /\ input_queue' = r.inq
        /\ output_queue' = <<>>
        /\ last' = r.ret
        /\ yielded' = IF r.ret.kind = "Some" THEN Append(yielded, r.ret.item) ELSE yielded
        /\ cmp_log' = cmp_log \o r.log
        /\ UNCHANGED <<content, input_groups, cmp_result, cmp_reads, wvars, pvars>>

\* One call of GroupByContentIter::next, during which the files of
\* `unreadable` cannot be opened.
GroupByContentNext(unreadable) ==
    LET r == next_loop(input_queue, output_queue, unreadable, <<>>)
    IN  /\ input_queue' = r.inq
        /\ output_queue' = r.outq
        /\ last' = r.ret
        /\ yielded' = IF r.ret.kind = "Some" THEN Append(yielded, r.ret.item) ELSE yielded
        /\ cmp_log' = cmp_log \o r.log
        /\ UNCHANGED <<content, input_groups, cmp_result, cmp_reads, wvars, pvars>>

\* group_by_content(groups_by_size): the candidate groups are the files
\* 1..n in order, cut into consecutive groups; the files are labels, and
\* their contents range over every assignment, so every order of contents
\* within a group occurs.  The members of a group have one size.
CandidateGroups(n, grp) ==
    [g \in 1..MaxGroups |->
        LET members == {f \in 1..n : grp[f] = g}
        IN  [i \in 1..Cardinality(members) |->
                DedupFile(CHOOSE f \in members : Cardinality({h \in members : h < f}) = i - 1)]]

InitCluster ==
    /\ content \in [Files -> Contents]
    /\ \E n \in 0..MaxFiles : \E grp \in [1..n -> 1..MaxGroups] :
        /\ \A f, h \in 1..n : f <= h => grp[f] <= grp[h]
        /\ \A f, h \in 1..n : grp[f] = grp[h] => Len(content[f]) = Len(content[h])
        /\ \A f \in Files : f > n => content[f] = <<>>
        /\ \E ngroups \in 0..MaxGroups :
            /\ \A f \in 1..n : grp[f] <= ngroups
            /\ input_groups = SubSeq(CandidateGroups(n, grp), 1, ngroups)
    /\ input_queue = input_groups
    /\ output_queue = <<>>
    /\ last = [kind |-> "NotCalled", item |-> <<>>]
    /\ yielded = <<>>
    /\ cmp_log = <<>>
    /\ cmp_result = "NotCalled" /\ cmp_reads = 0
    /\ WalkerIdle
    /\ ParserIdle

NextCluster == \E unreadable \in SUBSET Files : GroupByContentNext(unreadable)

SpecCluster == InitCluster /\ [][NextCluster]_vars

\* group_by_content on one candidate group of readable files of one size, so
\* that the first call of next() is one call of regroup.
InitClusterOne ==
    /\ \E n \in 0..MaxCandidates :
        /\ content \in [1..MaxCandidates -> Contents]
        /\ \A f \in 1..MaxCandidates :
            Len(content[f]) = IF f <= n THEN BUFFER_LEN + 1 ELSE 0
        /\ input_groups = << [i \in 1..n |-> DedupFile(i)] >>
    /\ input_queue = input_groups
    /\ output_queue = <<>>
    /\ last = [kind |-> "NotCalled", item |-> <<>>]
    /\ yielded = <<>>
    /\ cmp_log = <<>>
    /\ cmp_result = "NotCalled" /\ cmp_reads = 0
    /\ WalkerIdle
    /\ ParserIdle

NextClusterOne == GroupByContentNext({})

SpecClusterOne == InitClusterOne /\ [][NextClusterOne]_vars

\* compare_file_bytes called on its own, on two readable files of any
\* lengths up to MaxChunks full chunks and a partial one.
ComparePaths == {1, 2}

CompareContents == UNION {[1..n -> Bytes] : n \in 0..(MaxChunks * BUFFER_LEN + 1)}

InitCompare ==
    /\ content \in [ComparePaths -> CompareContents]
    /\ input_groups = <<>> /\ input_queue = <<>> /\ output_queue = <<>>
    /\ last = [kind |-> "NotCalled", item |-> <<>>] /\ yielded = <<>> /\ cmp_log = <<>>
    /\ cmp_result = "NotCalled" /\ cmp_reads = 0
    /\ WalkerIdle
    /\ ParserIdle

\* compare_file_bytes(path1, path2)
Compare ==
    /\ cmp_result = "NotCalled"
    /\ cmp_result' = compare_file_bytes(1, 2, {})
    /\ cmp_reads' = LET zero == [i \in 1..BUFFER_LEN |-> 0]
                    IN  compare_reads(content[1], content[2], 0, 0, zero, zero)
    /\ UNCHANGED <<content, input_groups, input_queue, output_queue, last, yielded, cmp_log,
                   wvars, pvars>>

NextCompare == Compare

SpecCompare == InitCompare /\ [][NextCompare]_vars

\* group_by_content on one more candidate and fewer contents: the empty
\* content and the contents of one full chunk and a partial one that agree
\* in the full chunk, so that one candidate group can hold two pairs of equal
\* files.  A call of next() meets at most one file that cannot be opened.
WideFiles == 1..(MaxFiles + 1)

WideContents == {c \in Contents : \A i \in 1..Min(Len(c), BUFFER_LEN) : c[i] = 0}

InitClusterWide ==
    /\ content \in [WideFiles -> WideContents]
    /\ \E n \in 0..(MaxFiles + 1) : \E grp \in [1..n -> 1..MaxGroups] :
        /\ \A f, h \in 1..n : f <= h => grp[f] <= grp[h]
        /\ \A f, h \in 1..n : grp[f] = grp[h] => Len(content[f]) = Len(content[h])
        /\ \A f \in WideFiles : f > n => content[f] = <<>>
        /\ \E ngroups \in 0..MaxGroups :
            /\ \A f \in 1..n : grp[f] <= ngroups
            /\ input_groups = SubSeq(CandidateGroups(n, grp), 1, ngroups)
    /\ input_queue = input_groups
    /\ output_queue = <<>>
    /\ last = [kind |-> "NotCalled", item |-> <<>>]
    /\ yielded = <<>>
    /\ cmp_log = <<>>
    /\ cmp_result = "NotCalled" /\ cmp_reads = 0
    /\ WalkerIdle
    /\ ParserIdle

NextClusterWide ==
    \E unreadable \in {{}} \cup {{f} : f \in WideFiles} : GroupByContentNext(unreadable)

SpecClusterWide == InitClusterWide /\ [][NextClusterWide]_vars

\* ------------------------------------------------------------------------
\* group_by_inode.rs
\* ------------------------------------------------------------------------

Nodes == 1..MaxNodes

\* The node of the root path.
Root == 1

\* What std::fs::Metadata reports of a node: is_dir(), is_file() or neither
\* (a symlink, socket, pipe or device), and len().  A directory is smaller
\* than every threshold and a special file larger, so that only the kind can
\* decide whether they are wanted.
NodeClasses == {[kind |-> "dir", size |-> 0], [kind |-> "file", size |-> 1],
                [kind |-> "file", size |-> 2], [kind |-> "other", size |-> 2]}

\* The thresholds passed as min_size.
MinSizes == {2}

\* A path is the sequence of the directory entries it follows from the
\* root; only its last MaxDepth components are kept.  Without a directory
\* cycle no path is longer than the number of entries.
MaxDepth == MaxEntries + 1

\* With a directory cycle dir_queue grows without bound: the model follows
\* the walker as long as dir_queue holds at most MaxQueue paths.  Without a
\* cycle it never holds more paths than there are entries.
MaxQueue == MaxEntries

clip(path) ==
    IF Len(path) > MaxDepth THEN SubSeq(path, Len(path) - MaxDepth + 1, Len(path)) ELSE path

\* The node a path leads to.
resolve(path) == IF path = <<>> THEN Root ELSE fs.entries[path[Len(path)]].child

\* Metadata::nlink: the number of entries that refer to the node.
nlink(node) == Cardinality({e \in 1..Len(fs.entries) : fs.entries[e].child = node})

\* GroupByInodeIter::is_wanted_dir
is_wanted_dir(node, seen) == fs.node[node].kind = "dir" /\ <<0, node>> \notin seen

\* is_wanted_file without metadata.is_file(): the size alone decides.
is_wanted_file_AnyKind(node, min) == fs.node[node].size >= min

\* GroupByInodeIter::is_wanted_file
is_wanted_file(node, min) == fs.node[node].kind = "file" /\ fs.node[node].size >= min

\* GroupByInodeIter::push_child on the queues q = [file_queue, dir_queue].
push_child(q, path, node, seen, min) ==
    IF is_wanted_dir(node, seen)
    THEN [q EXCEPT !.dir_queue = Append(@, path)]
    ELSE IF is_wanted_file(node, min)
    THEN [q EXCEPT !.file_queue = Append(@,
            [paths |-> <<path>>, size |-> fs.node[node].size, device |-> 0,
             inode |-> node, nlink |-> nlink(node)])]
    ELSE q

\* GroupByInodeIter::read_dir_optimistically: the entries of the directory
\* at dir_path in listing order, none when the listing fails.
read_dir_optimistically(dir_path, listable) ==
    IF ~listable \/ fs.node[resolve(dir_path)].kind # "dir" THEN <<>>
    ELSE SelectSeq([e \in 1..Len(fs.entries) |-> e],
                   LAMBDA e : fs.entries[e].parent = resolve(dir_path))

\* push_children that gives up the listing at the first child that cannot be
\* read, as a `?` on child_entry.metadata() would.
push_children_AbortOnBad(q, dir_path, children, i, bad, seen, min) ==
    LET firstbad == IF \E j \in i..Len(children) : children[j] \in bad
                    THEN CHOOSE j \in i..Len(children) :
                            /\ children[j] \in bad
                            /\ \A k \in i..(j - 1) : children[k] \notin bad
                    ELSE Len(children) + 1
        step[j \in (i - 1)..Len(children)] ==
            IF j < i THEN q
            ELSE push_child(step[j - 1], clip(Append(dir_path, children[j])),
                            fs.entries[children[j]].child, seen, min)
    IN  step[firstbad - 1]

\* The `for child_entry in ...` loop of next(), from the i-th child on; the
\* children of `bad` are those whose entry or metadata cannot be read.
RECURSIVE push_children(_, _, _, _, _, _, _)
push_children(q, dir_path, children, i, bad, seen, min) ==
    IF i > Len(children) THEN q
    ELSE LET e == children[i]
             path == clip(Append(dir_path, e))
         IN  IF e \in bad
             THEN push_children(q, dir_path, children, i + 1, bad, seen, min)
             ELSE push_children(push_child(q, path, fs.entries[e].child, seen, min),
                                dir_path, children, i + 1, bad, seen, min)

\* The consumer calls next().
WalkCall ==
    /\ wpc = "idle"
    /\ wpc' = "while"
    /\ UNCHANGED <<fs, min_size, file_queue, dir_queue, seen_dirs, wlast, w_yielded, w_dup,
                   expanded, reexpanded, pushed_seen, failed_list, failed_child, cvars, pvars>>

\* The test of the while loop of next() finds a queue that is not empty.
WalkEnter ==
    /\ wpc = "while"
    /\ ~(file_queue = <<>> /\ dir_queue = <<>>)
    /\ wpc' = "body"
    /\ UNCHANGED <<fs, min_size, file_queue, dir_queue, seen_dirs, wlast, w_yielded, w_dup,
                   expanded, reexpanded, pushed_seen, failed_list, failed_child, cvars, pvars>>

\* An iteration of the while loop of next() that finds a queued file and
\* returns it.
WalkYield ==
    /\ wpc = "body"
    /\ file_queue # <<>>
    /\ LET f == file_queue[Len(file_queue)]
       IN  /\ file_queue' = SubSeq(file_queue, 1, Len(file_queue) - 1)
           /\ wlast' = [kind |-> "Some", item |-> f]
           /\ w_yielded' = w_yielded \cup {f}
           /\ w_dup' = (w_dup \/ f \in w_yielded)
    /\ wpc' = "idle"
    /\ UNCHANGED <<fs, min_size, dir_queue, seen_dirs, expanded, reexpanded, pushed_seen,
                   failed_list, failed_child, cvars, pvars>>

\* An iteration of the while loop of next() that finds no queued file, pops
\* a directory and pushes its children; the loop goes on.  The environment
\* decides whether the listing succeeds and which children cannot be read; a
\* walk meets at most one failure.
WalkExpand(listable, bad) ==
    /\ wpc = "body"
    /\ file_queue = <<>>
    /\ dir_queue # <<>>
    /\ LET dir_path == dir_queue[Len(dir_queue)]
           rest == SubSeq(dir_queue, 1, Len(dir_queue) - 1)
           node == resolve(dir_path)
           children == read_dir_optimistically(dir_path, listable)
           q == push_children([file_queue |-> file_queue, dir_queue |-> rest],
                              dir_path, children, 1, bad, seen_dirs, min_size)
           pushed == {resolve(q.dir_queue[i]) : i \in (Len(rest) + 1)..Len(q.dir_queue)}
       IN  /\ bad \subseteq {children[i] : i \in 1..Len(children)}
           /\ (bad # {} \/ ~listable) => (failed_list = {} /\ failed_child = {})
           /\ bad # {} => (listable /\ Cardinality(bad) = 1)
           /\ Len(q.dir_queue) <= MaxQueue
           /\ file_queue' = q.file_queue
           /\ dir_queue' = q.dir_queue
           /\ expanded' = expanded \cup {node}
           /\ reexpanded' = reexpanded \cup ({node} \cap expanded)
           /\ pushed_seen' = pushed_seen \cup (pushed \cap (expanded \cup {node}))
           /\ failed_list' = IF listable THEN failed_list ELSE failed_list \cup {dir_path}
           /\ failed_child' = failed_child \cup {clip(Append(dir_path, e)) : e \in bad}
    /\ wpc' = "while"
    /\ UNCHANGED <<fs, min_size, seen_dirs, wlast, w_yielded, w_dup, cvars, pvars>>

\* WalkDone with a loop test that looks at file_queue only: next() returns
\* None while directories are pending.
WalkDone_FileQueueOnly ==
    /\ wpc = "while"
    /\ file_queue = <<>>
    /\ wlast' = [kind |-> "None", item |-> <<>>]
    /\ wpc' = "idle"
    /\ UNCHANGED <<fs, min_size, file_queue, dir_queue, seen_dirs, w_yielded, w_dup,
                   expanded, reexpanded, pushed_seen, failed_list, failed_child, cvars, pvars>>

\* The test of the while loop of next() finds both queues empty: the two
\* assertions hold and next() returns None.
WalkDone ==
    /\ wpc = "while"
    /\ file_queue = <<>>
    /\ dir_queue = <<>>
    /\ wlast' = [kind |-> "None", item |-> <<>>]
    /\ wpc' = "idle"
    /\ UNCHANGED <<fs, min_size, file_queue, dir_queue, seen_dirs, w_yielded, w_dup,
                   expanded, reexpanded, pushed_seen, failed_list, failed_child, cvars, pvars>>

\* The hierarchies.  The root is a directory and every entry lies in a
\* directory.  The nodes are numbered in the order a breadth-first listing
\* from the root meets them, and the entries are ordered by directory and,
\* within a directory, in listing order: every hierarchy whose entries can
\* all be reached has exactly one such numbering.  A node that no entry
\* refers to stands for nothing; it has the class of a special file.
Hierarchies ==
    {h \in [node : [Nodes -> NodeClasses],
            entries : UNION {[1..n -> [parent : Nodes, child : Nodes]] : n \in 0..MaxEntries}] :
        /\ h.node[Root].kind = "dir"
        /\ \A e \in 1..Len(h.entries) :
              LET met == {Root} \cup {h.entries[d].child : d \in 1..(e - 1)}
              IN  /\ h.node[h.entries[e].parent].kind = "dir"
                  /\ h.entries[e].parent \in met
                  /\ e > 1 => h.entries[e - 1].parent <= h.entries[e].parent
                  /\ h.entries[e].child <= Cardinality(met) + 1
        /\ \A n \in Nodes \ {Root} :
              (\A e \in 1..Len(h.entries) : h.entries[e].child # n) => h.node[n].kind = "other"}

\* group_by_inode(root, min_size)
InitWalk ==
    /\ fs \in Hierarchies
    /\ min_size \in MinSizes
    /\ file_queue = <<>>
    /\ dir_queue = << <<>> >>
    /\ seen_dirs = {}
    /\ wpc = "idle"
    /\ wlast = [kind |-> "NotCalled", item |-> <<>>]
    /\ w_yielded = {} /\ w_dup = FALSE
    /\ expanded = {} /\ reexpanded = {} /\ pushed_seen = {}
    /\ failed_list = {} /\ failed_child = {}
    /\ ClusterIdle
    /\ ParserIdle

NextWalk ==
    \/ WalkCall
    \/ WalkEnter
    \/ WalkYield
    \/ \E listable \in BOOLEAN : \E bad \in SUBSET (1..MaxEntries) : WalkExpand(listable, bad)
    \/ WalkDone

SpecWalk == InitWalk /\ [][NextWalk]_vars

\* The consumer keeps calling next() and a call keeps running.
FairSpecWalk == SpecWalk /\ WF_vars(NextWalk)

\* The nodes that can be reached from the nodes of S along at most k entries.
RECURSIVE reach(_, _)
reach(S, k) ==
    IF k = 0 THEN S
    ELSE LET near == reach(S, k - 1)
         IN  near \cup {fs.entries[e].child : e \in {d \in 1..Len(fs.entries) :
                                                      fs.entries[d].parent \in near}}

\* The hierarchy has a directory cycle: some entry leads to a node from which
\* the directory of the entry can be reached again.
Cyclic ==
    \E e \in 1..Len(fs.entries) :
        fs.entries[e].parent \in reach({fs.entries[e].child}, MaxNodes)

\* group_by_inode on a hierarchy without directory cycles, the consumer
\* calling next() again and again.
InitWalkAcyclic == InitWalk /\ ~Cyclic

FairSpecWalkAcyclic == InitWalkAcyclic /\ [][NextWalk]_vars /\ WF_vars(NextWalk)

\* ------------------------------------------------------------------------
\* The two lazy stages side by side
\* ------------------------------------------------------------------------

\* A run of the walker (group_by_inode was called), as opposed to a run of
\* the clusterer.
WalkRunning == min_size \in MinSizes

InitStages == InitWalk \/ InitClusterWide

NextStages ==
    \/ WalkRunning /\ NextWalk
    \/ ~WalkRunning /\ NextClusterWide

\* Every run of the walker and every run of the clusterer.
SpecStages == InitStages /\ [][NextStages]_vars

\* ------------------------------------------------------------------------
\* main.rs: parse_file_size_spec
\* ------------------------------------------------------------------------

\* Numbers are sequences of WideLimbs limbs in base LimbBase, least
\* significant first: wide enough for every product below to be exact.  A
\* u64 is a number whose limbs above the first U64Limbs are zero.
LimbBase == 65536
U64Limbs == 4
WideLimbs == 8

\* A limb is two half limbs: HalfBase * HalfBase = LimbBase.
HalfBase == 256

BigZero == [i \in 1..WideLimbs |-> 0]

\* The number n, 0 <= n < 2^31.
BigFromInt(n) ==
    [i \in 1..WideLimbs |->
        IF i = 1 THEN n % LimbBase
        ELSE IF i = 2 THEN n \div LimbBase
        ELSE 0]

\* a * m + carry for a small m (m <= 1024), from limb i on.
RECURSIVE mul_small_from(_, _, _, _)
mul_small_from(a, m, i, carry) ==
    IF i > WideLimbs THEN <<>>
    ELSE LET v == a[i] * m + carry
         IN  <<v % LimbBase>> \o mul_small_from(a, m, i + 1, v \div LimbBase)

BigMulSmall(a, m) == mul_small_from(a, m, 1, 0)

BigAddSmall(a, d) == mul_small_from(a, 1, 1, d)

RECURSIVE add_from(_, _, _, _)
add_from(a, b, i, carry) ==
    IF i > WideLimbs THEN <<>>
    ELSE LET v == a[i] + b[i] + carry
         IN  <<v % LimbBase>> \o add_from(a, b, i + 1, v \div LimbBase)

BigAdd(a, b) == add_from(a, b, 1, 0)

\* a shifted up by k limbs.
BigShift(a, k) == [i \in 1..WideLimbs |-> IF i <= k THEN 0 ELSE a[i - k]]

\* acc + a * (the limbs of b from limb i on), each limb of b taken in as two
\* half limbs; the sum is evaluated before the next limb is taken.
RECURSIVE mul_from(_, _, _, _)
mul_from(a, b, i, acc) ==
    IF i > WideLimbs THEN acc
    ELSE IF b[i] = 0 THEN mul_from(a, b, i + 1, acc)
    ELSE LET high == BigMulSmall(BigMulSmall(a, b[i] \div HalfBase), HalfBase)
             low == BigMulSmall(a, b[i] % HalfBase)
             sum == BigAdd(acc, BigShift(BigAdd(high, low), i - 1))
         IN  IF Len(sum) = WideLimbs THEN mul_from(a, b, i + 1, sum) ELSE BigZero

BigMul(a, b) == mul_from(a, b, 1, BigZero)

\* The number fits in a u64.
FitsU64(a) == \A i \in (U64Limbs + 1)..WideLimbs : a[i] = 0

\* The number modulo 2^64: what a wrapping u64 operation keeps.
WrapU64(a) == [i \in 1..WideLimbs |-> IF i <= U64Limbs THEN a[i] ELSE 0]

DigitChars == <<"0", "1", "2", "3", "4", "5", "6", "7", "8", "9">>

\* char::is_ascii_digit and char::to_digit(10)
is_ascii_digit(c) == \E d \in 1..10 : DigitChars[d] = c
to_digit(c) == (CHOOSE d \in 1..10 : DigitChars[d] = c) - 1

LowerLetters == {"k", "m", "g", "t", "i", "b", "x"}
UpperLetters == {"K", "M", "G", "T", "I", "B", "X"}

\* char::is_ascii_alphabetic
is_ascii_alphabetic(c) == c \in LowerLetters \cup UpperLetters

\* char::to_ascii_lowercase
to_ascii_lowercase(c) ==
    CASE c = "K" -> "k" [] c = "M" -> "m" [] c = "G" -> "g" [] c = "T" -> "t"
      [] c = "I" -> "i" [] c = "B" -> "b" [] c = "X" -> "x" [] OTHER -> c

\* String::make_ascii_lowercase
make_ascii_lowercase(s) == [i \in 1..Len(s) |-> to_ascii_lowercase(s[i])]

\* The digit loop of u64::from_str from character i on: each digit is taken
\* in with checked_mul(10) and checked_add.
RECURSIVE parse_digits(_, _, _)
parse_digits(src, i, acc) ==
    IF i > Len(src) THEN [ok |-> TRUE, val |-> acc]
    ELSE IF ~is_ascii_digit(src[i]) THEN [ok |-> FALSE, val |-> BigZero]
    ELSE LET mul == BigMulSmall(acc, 10)
             sum == BigAddSmall(mul, to_digit(src[i]))
         IN  IF ~FitsU64(mul) \/ ~FitsU64(sum) THEN [ok |-> FALSE, val |-> BigZero]
             ELSE parse_digits(src, i + 1, sum)

\* str::parse::<u64>: empty input and a lone sign are errors, a leading "+"
\* is accepted, a leading "-" is an invalid digit.
parse_u64(src) ==
    IF src = <<>> THEN [ok |-> FALSE, val |-> BigZero]
    ELSE IF Len(src) = 1 /\ src[1] \in {"+", "-"} THEN [ok |-> FALSE, val |-> BigZero]
    ELSE IF src[1] = "+" THEN parse_digits(src, 2, BigZero)
    ELSE parse_digits(src, 1, BigZero)

\* The literals of the match on the suffix (the larger ones written as
\* products of 1_000_000 or 1_024 * 1_024 and a small factor).
multiplier(suffix) ==
    CASE suffix = <<>> -> <<BigFromInt(1)>>
      [] suffix \in {<<"k">>, <<"k", "b">>} -> <<BigFromInt(1000)>>
      [] suffix \in {<<"m">>, <<"m", "b">>} -> <<BigFromInt(1000000)>>
      [] suffix \in {<<"g">>, <<"g", "b">>} ->
            <<BigMulSmall(BigFromInt(1000000), 1000)>>
      [] suffix \in {<<"t">>, <<"t", "b">>} ->
            <<BigMulSmall(BigMulSmall(BigFromInt(1000000), 1000), 1000)>>
      [] suffix \in {<<"k", "i">>, <<"k", "i", "b">>} -> <<BigFromInt(1024)>>
      [] suffix \in {<<"m", "i">>, <<"m", "i", "b">>} -> <<BigFromInt(1024 * 1024)>>
      [] suffix \in {<<"g", "i">>, <<"g", "i", "b">>} ->
            <<BigMulSmall(BigFromInt(1024 * 1024), 1024)>>
      [] suffix \in {<<"t", "i">>, <<"t", "i", "b">>} ->
            <<BigMulSmall(BigMulSmall(BigFromInt(1024 * 1024), 1024), 1024)>>
      [] OTHER -> <<>>

\* num * multiplier on u64: exact when the product fits; otherwise a panic
\* where overflow checks are compiled in and the product modulo 2^64 where
\* they are not.
mul_u64(num, mult, build) ==
    LET product == BigMul(num, mult)
    IN  IF FitsU64(product) THEN [kind |-> "Ok", val |-> product, why |-> ""]
        ELSE IF build = "debug"
        THEN [kind |-> "Panic", val |-> <<>>, why |-> "attempt to multiply with overflow"]
        ELSE [kind |-> "Ok", val |-> WrapU64(product), why |-> ""]

\* parse_file_size_spec(s)
parse_file_size_spec(s, build) ==
    LET t == make_ascii_lowercase(s)
        found == {i \in 1..Len(t) : is_ascii_alphabetic(t[i])}
        split == IF found = {} THEN Len(t) + 1
                 ELSE CHOOSE i \in found : \A j \in found : i <= j
        num_str == SubSeq(t, 1, split - 1)
        suffix == SubSeq(t, split, Len(t))
        mult == multiplier(suffix)
        num == parse_u64(num_str)
    IN  IF mult = <<>> THEN [kind |-> "Err", val |-> <<>>, why |-> "bad multiplier"]
        ELSE IF ~num.ok THEN [kind |-> "Err", val |-> <<>>, why |-> "bad number"]
        ELSE mul_u64(num.val, mult[1], build)

\* The characters of a freely chosen argument.
FreeChars == {"0", "7", "k", "K", "i", "b", "x", "+", "-", " "}

\* The magnitudes tried with every suffix: small ones, 2^24 (times 1024^4 it
\* is 2^64), 20000000, the largest u64 and its successor, and two
\* magnitudes whose product with 1000 lies just below and just above 2^64.
Magnitudes ==
    {[i \in 1..Len(d) |-> DigitChars[d[i] + 1]] : d \in
        {<<0>>, <<7>>, <<4, 2>>, <<1, 6, 7, 7, 7, 2, 1, 6>>, <<2, 0, 0, 0, 0, 0, 0, 0>>,
         <<1, 8, 4, 4, 6, 7, 4, 4, 0, 7, 3, 7, 0, 9, 5, 5, 1>>,
         <<1, 8, 4, 4, 6, 7, 4, 4, 0, 7, 3, 7, 0, 9, 5, 5, 2>>,
         <<1, 8, 4, 4, 6, 7, 4, 4, 0, 7, 3, 7, 0, 9, 5, 5, 1, 6, 1, 5>>,
         <<1, 8, 4, 4, 6, 7, 4, 4, 0, 7, 3, 7, 0, 9, 5, 5, 1, 6, 1, 6>>}}

\* The suffixes tried with every magnitude: every string of at most three
\* of the letters k, m, g, t, i, b in either case.
Suffixes ==
    UNION {[1..n -> {"k", "m", "g", "t", "i", "b", "K", "M", "G", "T", "I", "B"}] : n \in 0..3}

Inputs ==
    UNION {[1..n -> FreeChars] : n \in 0..MaxLen}
        \cup {m \o x : <<m, x>> \in Magnitudes \X Suffixes}

InitParse ==
    /\ p_input \in Inputs
    /\ p_build \in {"debug", "release"}
    /\ p_result = [kind |-> "NotCalled", val |-> <<>>, why |-> ""]
    /\ ClusterIdle
    /\ WalkerIdle

\* main calls parse_file_size_spec(min_size_str).
Parse ==
    /\ p_result.kind = "NotCalled"
    /\ p_result' = parse_file_size_spec(p_input, p_build)
    /\ UNCHANGED <<p_input, p_build, cvars, wvars>>

NextParse == Parse

SpecParse == InitParse /\ [][NextParse]_vars

\* ------------------------------------------------------------------------
\* Properties of the size-spec parser
\* ------------------------------------------------------------------------

\* base^n as a wide number, for a small base.
RECURSIVE Power(_, _)
Power(base, n) == IF n = 0 THEN BigFromInt(1) ELSE BigMulSmall(Power(base, n - 1), base)

\* The unit letters and the exponent each stands for.
UnitLetters == <<"k", "m", "g", "t">>

\* The multiplier a recognized suffix stands for, as the documentation gives
\* it: <<>> when the suffix is not recognized.
SuffixMultiplier(suffix) ==
    IF suffix = <<>> THEN <<BigFromInt(1)>>
    ELSE IF \E n \in 1..4 : suffix \in {<<UnitLetters[n]>>, <<UnitLetters[n], "b">>}
    THEN LET n == CHOOSE n \in 1..4 : suffix[1] = UnitLetters[n]
         IN  <<Power(1000, n)>>
    ELSE IF \E n \in 1..4 : suffix \in {<<UnitLetters[n], "i">>, <<UnitLetters[n], "i", "b">>}
    THEN LET n == CHOOSE n \in 1..4 : suffix[1] = UnitLetters[n]
         IN  <<Power(1024, n)>>
    ELSE <<>>

\* A decimal magnitude: one or more digits, after an optional "+" (the sign
\* the integer syntax of the language admits).
IsMagnitude(m) ==
    LET digits == IF m # <<>> /\ m[1] = "+" THEN Tail(m) ELSE m
    IN  digits # <<>> /\ \A i \in 1..Len(digits) : is_ascii_digit(digits[i])

\* The number a decimal magnitude denotes, read digit by digit from
\* character i on (acc is the number read so far, evaluated at each digit).
RECURSIVE magnitude_from(_, _, _)
magnitude_from(m, i, acc) ==
    IF i > Len(m) THEN acc
    ELSE LET v == IF m[i] = "+" THEN acc
                  ELSE BigAddSmall(BigMulSmall(acc, 10), to_digit(m[i]))
         IN  IF Len(v) = WideLimbs THEN magnitude_from(m, i + 1, v) ELSE BigZero

MagnitudeValue(m) == magnitude_from(m, 1, BigZero)

\* The places where the input splits into a magnitude and a recognized
\* suffix, letter case ignored.
Splits(s) ==
    {k \in 0..Len(s) :
        /\ IsMagnitude(SubSeq(s, 1, k))
        /\ SuffixMultiplier(make_ascii_lowercase(SubSeq(s, k + 1, Len(s)))) # <<>>}

\* The parser has been called and has come back or panicked.
Parsed == p_result.kind # "NotCalled"

\* C9: size-spec parser.  An input made of a decimal magnitude that fits in a
\* u64 followed by an optional recognized suffix (any letter case) parses to
\* the magnitude times the multiplier of the suffix, and an input that is not
\* a decimal magnitude followed by an optional recognized suffix is an error.
C9_SizeSpecParser ==
    Parsed =>
        IF Splits(p_input) = {}
        THEN p_result.kind = "Err"
        ELSE \A k \in Splits(p_input) :
                LET magnitude == MagnitudeValue(SubSeq(p_input, 1, k))
                    suffix == make_ascii_lowercase(SubSeq(p_input, k + 1, Len(p_input)))
                IN  FitsU64(magnitude) =>
                        /\ p_result.kind = "Ok"
                        /\ p_result.val = BigMul(magnitude, SuffixMultiplier(suffix)[1])

\* C20: parser overflow.  For an input whose magnitude parses as a u64 and
\* whose suffix is recognized, a value that parse_file_size_spec returns is
\* the mathematical product of magnitude and multiplier, and when that
\* product does not fit in a u64 the result is a parse failure.
C20_ParserOverflow ==
    Parsed =>
        \A k \in Splits(p_input) :
            LET magnitude == MagnitudeValue(SubSeq(p_input, 1, k))
                suffix == make_ascii_lowercase(SubSeq(p_input, k + 1, Len(p_input)))
                product == BigMul(magnitude, SuffixMultiplier(suffix)[1])
            IN  FitsU64(magnitude) =>
                    /\ p_result.kind = "Ok" => p_result.val = product
                    /\ ~FitsU64(product) => p_result.kind = "Err"

\* ------------------------------------------------------------------------
\* Properties of the directory walker
\* ------------------------------------------------------------------------

\* next() of the walker has returned None.
WalkDrained == wlast.kind = "None"

\* The paths below the root that follow at most k entries.
RECURSIVE paths_below(_)
paths_below(k) ==
    IF k = 0 THEN {<<>>}
    ELSE LET shorter == paths_below(k - 1)
         IN  shorter \cup
             {Append(pe[1], pe[2]) : pe \in {x \in shorter \X (1..Len(fs.entries)) :
                                              fs.entries[x[2]].parent = resolve(x[1])}}

\* The paths of at most MaxEntries entries whose metadata reports a regular
\* file of at least min_size bytes.
WantedFilePaths ==
    {p \in paths_below(MaxEntries) :
        /\ p # <<>>
        /\ fs.node[resolve(p)].kind = "file"
        /\ fs.node[resolve(p)].size >= min_size}

YieldedPaths == {r.paths[1] : r \in w_yielded}

NoFailure == failed_list = {} /\ failed_child = {}

\* The walk cannot reach path p: a directory above it could not be listed, or
\* p or a directory above it could not be read as a child.
Blocked(p) ==
    \/ \E i \in 0..(Len(p) - 1) : SubSeq(p, 1, i) \in failed_list
    \/ \E i \in 1..Len(p) : SubSeq(p, 1, i) \in failed_child

\* Path p is still to be visited: it is in file_queue, or it or a directory
\* above it is in dir_queue.
Pending(p) ==
    \/ \E i \in 1..Len(file_queue) : file_queue[i].paths = <<p>>
    \/ \E i \in 1..Len(dir_queue) : \E j \in 0..Len(p) : dir_queue[i] = SubSeq(p, 1, j)

\* C4: hard-link consolidation.  No two records handed on by group_by_inode
\* share a (device, inode) pair.
C4_HardLinkConsolidation ==
    \A r1, r2 \in w_yielded :
        (r1.device = r2.device /\ r1.inode = r2.inode) => r1 = r2

\* The model follows a walk no further: every listing of the pending
\* directory would make dir_queue longer than MaxQueue.
OutOfBounds == ~ENABLED NextWalk

\* C5: cycle safety.  In a hierarchy with a directory cycle, repeated calls
\* of next() eventually return None.
C5_CycleSafety == Cyclic => <>(WalkDrained \/ OutOfBounds)

\* C6: walker output.  Every record yielded has one path and describes a
\* regular file of at least min_size bytes; and when the walk of a hierarchy
\* without cycles and without failures has ended, the paths yielded are
\* exactly the paths of the wanted files, each yielded once.
C6_WalkerOutput ==
    /\ \A r \in w_yielded :
        /\ Len(r.paths) = 1
        /\ r.paths[1] # <<>>
        /\ fs.node[r.inode].kind = "file"
        /\ r.size = fs.node[r.inode].size
        /\ r.size >= min_size
        /\ r.inode = resolve(r.paths[1])
    /\ (WalkDrained /\ ~Cyclic /\ NoFailure) =>
        (YieldedPaths = WantedFilePaths /\ ~w_dup)

\* The walk of a hierarchy without cycles has ended without failures; it
\* yielded a file from a directory below the root, a directory smaller than
\* min_size, and left out some entry of the hierarchy.
C6_Witness ==
    /\ WalkDrained /\ ~Cyclic /\ NoFailure
    /\ \E r \in w_yielded :
        /\ Len(r.paths[1]) >= 2
        /\ fs.node[fs.entries[r.paths[1][1]].child].size < min_size
    /\ Cardinality(w_yielded) < Len(fs.entries)

\* C7: walker failure policy.  Whatever listing or child failed, every wanted
\* file that the failure does not hide has been yielded or is still to be
\* visited, and next() has reported no error.
C7_FailurePolicy ==
    /\ wlast.kind \in {"NotCalled", "Some", "None"}
    /\ \A p \in WantedFilePaths : Blocked(p) \/ p \in YieldedPaths \/ Pending(p)

\* A walk has ended in which a listing or a child failed, a wanted file was
\* hidden by the failure, and another wanted file was yielded.
C7_Witness ==
    /\ WalkDrained
    /\ ~NoFailure
    /\ \E p \in WantedFilePaths : Blocked(p)
    /\ \E p \in WantedFilePaths : ~Blocked(p) /\ p \in YieldedPaths

\* C10: cycle guard.  No node is popped from dir_queue and listed more than
\* once, and no node is pushed to dir_queue once it has been expanded.
C10_CycleGuard == reexpanded = {} /\ pushed_seen = {}

\* The iteration of the while loop that starts in this state pops a
\* directory and lists it.
AboutToExpand == wpc = "body" /\ file_queue = <<>> /\ dir_queue # <<>>

\* The wanted files that no failure hides and that have not been yielded.
NotYetYielded == {p \in WantedFilePaths : ~Blocked(p) /\ p \notin YieldedPaths}

\* C11: breadth-first traversal.  In a hierarchy without cycles, the directory
\* that is popped and listed is no deeper below the root than any directory
\* still pending in dir_queue, and no file has been yielded from a deeper
\* level than a wanted file that is still to be yielded.
C11_BreadthFirst ==
    ~Cyclic =>
        /\ AboutToExpand =>
            \A i \in 1..(Len(dir_queue) - 1) :
                Len(dir_queue[i]) >= Len(dir_queue[Len(dir_queue)])
        /\ \A y \in YieldedPaths : \A p \in NotYetYielded : Len(y) <= Len(p)

\* C12: walker termination.  On a hierarchy without directory cycles repeated
\* calls of next() eventually return None, and whenever next() has returned
\* None both dir_queue and file_queue are empty.
C12_WalkerTermination ==
    /\ ~Cyclic => <>WalkDrained
    /\ [](WalkDrained => (dir_queue = <<>> /\ file_queue = <<>>))

\* The walk of a hierarchy without cycles has returned None after it listed
\* a directory below the root and yielded two files or more.
C12_Witness ==
    /\ WalkDrained /\ ~Cyclic
    /\ dir_queue = <<>> /\ file_queue = <<>>
    /\ Cardinality(expanded) >= 2
    /\ Cardinality(w_yielded) >= 2

\* ------------------------------------------------------------------------
\* Properties of the content clusterer
\* ------------------------------------------------------------------------

\* The paths[0] of the members of a group.
MembersOf(group) == {group[i].paths[1] : i \in 1..Len(group)}

\* next() has returned None: the iterator is drained.
Drained == last.kind = "None"

\* Some call of compare_file_bytes so far has returned Err.
CmpFailed == \E i \in 1..Len(cmp_log) : cmp_log[i][3] = "Err"

\* f and h are members of one yielded group.
YieldedTogether(f, h) ==
    \E k \in 1..Len(yielded) : {f, h} \subseteq MembersOf(yielded[k])

\* f is a member of some yielded group.
Yielded(f) == \E k \in 1..Len(yielded) : f \in MembersOf(yielded[k])

\* C1: no false negatives.  Once the iterator is drained and no comparison
\* has failed, any two members of one candidate group whose contents are
\* identical are members of one yielded group.
C1_NoFalseNegatives ==
    (Drained /\ ~CmpFailed) =>
        \A g \in 1..Len(input_groups) : \A f, h \in MembersOf(input_groups[g]) :
            (f # h /\ content[f] = content[h]) => YieldedTogether(f, h)

\* A drained run without failures in which a candidate was compared with the
\* head of a cluster it did not match and then joined a later cluster.
C1_Witness ==
    /\ Drained /\ ~CmpFailed
    /\ \E i \in 1..Len(cmp_log) : \E j \in 1..Len(cmp_log) :
        /\ i < j
        /\ cmp_log[i][1] = cmp_log[j][1]
        /\ cmp_log[i][3] = "Ok(false)"
        /\ cmp_log[j][3] = "Ok(true)"
        /\ YieldedTogether(cmp_log[j][1], cmp_log[j][2])

\* C2: no false positives.  Two members of a yielded group never differ in
\* content, whatever comparisons failed.
C2_NoFalsePositives ==
    \A k \in 1..Len(yielded) : \A f, h \in MembersOf(yielded[k]) :
        content[f] = content[h]

\* A group has been yielded while its candidate group held a further member
\* of the same size that differs from it only in the final partial chunk.
C2_Witness ==
    \E k \in 1..Len(yielded) : \E g \in 1..Len(input_groups) :
        \E f \in MembersOf(yielded[k]) : \E h \in MembersOf(input_groups[g]) :
            /\ f \in MembersOf(input_groups[g])
            /\ h \notin MembersOf(yielded[k])
            /\ Len(content[f]) = Len(content[h])
            /\ Len(content[f]) > BUFFER_LEN
            /\ SubSeq(content[f], 1, BUFFER_LEN) = SubSeq(content[h], 1, BUFFER_LEN)
            /\ content[f] # content[h]

\* C3: singleton elimination.  Every yielded group has at least 2 members,
\* and a candidate whose content matches no other member of its candidate
\* group is in no yielded group.
C3_SingletonElimination ==
    /\ \A k \in 1..Len(yielded) : Len(yielded[k]) >= 2
    /\ \A g \in 1..Len(input_groups) : \A f \in MembersOf(input_groups[g]) :
        (\A h \in MembersOf(input_groups[g]) \ {f} : content[h] # content[f])
            => ~Yielded(f)

\* A drained run whose input held an empty candidate group and a candidate
\* group with a pair of equal members and a member that matches nothing.
C3_Witness ==
    /\ Drained
    /\ Len(yielded) >= 1
    /\ \E g \in 1..Len(input_groups) : input_groups[g] = <<>>
    /\ \E g \in 1..Len(input_groups) : \E f \in MembersOf(input_groups[g]) :
        /\ Len(input_groups[g]) >= 3
        /\ \A h \in MembersOf(input_groups[g]) \ {f} : content[h] # content[f]

\* C8: clusterer error policy.  Once a byte comparison has failed, the call
\* of next() that made it reports a failure of the clustering stage.
C8_ComparisonFailureSurfaced == CmpFailed => last.kind = "Err"

\* One call of next(), as C13 sees it: the candidate groups it pops from
\* input_queue and the comparisons it adds to cmp_log.
C13_Step ==
    LET first == Len(input_queue') + 1
        popped == first..Len(input_queue)
        made == SubSeq(cmp_log', Len(cmp_log) + 1, Len(cmp_log'))
    IN  \* while output_queue holds a group, no candidate group is taken and
        \* no comparison is made
        /\ output_queue # <<>> =>
            (input_queue' = input_queue /\ cmp_log' = cmp_log /\ last'.kind = "Some")
        \* candidate groups leave input_queue from its end only
        /\ first <= Len(input_queue) + 1
        /\ input_queue' = SubSeq(input_queue, 1, first - 1)
        \* the comparisons of the call are on the groups it took
        /\ \A i \in 1..Len(made) : \E g \in popped :
            {made[i][1], made[i][2]} \subseteq MembersOf(input_queue[g])
        \* the call stops taking groups at the first one that gives a
        \* ContentGroup: what it returns and what it leaves in output_queue
        \* comes from the last group it took
        /\ (popped # {} /\ last'.kind = "Some") =>
            /\ MembersOf(last'.item) \subseteq MembersOf(input_queue[first])
            /\ \A j \in 1..Len(output_queue') :
                MembersOf(output_queue'[j]) \subseteq MembersOf(input_queue[first])
        \* no member of a group still in input_queue has been compared
        /\ \A g \in 1..Len(input_queue') : \A i \in 1..Len(cmp_log') :
            {cmp_log'[i][1], cmp_log'[i][2]} \cap MembersOf(input_queue'[g]) = {}

\* C13: clusterer laziness and ordering.  Every call of next() takes a
\* candidate group from input_queue only when output_queue is empty, so the
\* ContentGroups of one candidate group are all yielded before a comparison
\* is made on the next, and it takes no group beyond the first that gives
\* it a ContentGroup to return.
C13_LazyOrdering == [][C13_Step]_vars

\* A ContentGroup has been yielded while a second ContentGroup of the same
\* candidate group waits in output_queue and a further candidate group, not
\* yet compared, waits in input_queue.
C13_Witness ==
    /\ Len(yielded) >= 1
    /\ output_queue # <<>>
    /\ input_queue # <<>>
    /\ cmp_log # <<>>

\* The k-th chunk of a file: BUFFER_LEN bytes, fewer at the end of the file,
\* none past it.
Chunk(data, k) == SubSeq(data, (k - 1) * BUFFER_LEN + 1, Min(k * BUFFER_LEN, Len(data)))

\* The first chunk in which two files differ (in length or in content), and
\* for identical files the first chunk that is not full.
LastChunkNeeded(data1, data2) ==
    CHOOSE k \in 1..(MaxChunks + 2) :
        /\ Chunk(data1, k) # Chunk(data2, k) \/ Len(Chunk(data1, k)) # BUFFER_LEN
        /\ \A j \in 1..(k - 1) :
            Chunk(data1, j) = Chunk(data2, j) /\ Len(Chunk(data1, j)) = BUFFER_LEN

\* C14: chunked comparison.  On two readable files of any lengths,
\* compare_file_bytes returns Ok(true) if the byte sequences are identical
\* and Ok(false) if not, and it reads no chunk beyond the first one that
\* differs in length or content (beyond the first short chunk when the files
\* are identical).
C14_ChunkedComparison ==
    cmp_result # "NotCalled" =>
        /\ cmp_result = IF content[1] = content[2] THEN "Ok(true)" ELSE "Ok(false)"
        /\ cmp_reads = LastChunkNeeded(content[1], content[2])

\* Two files of one length that agree in their full chunks and differ in the
\* final partial chunk have been compared, and found different at the last
\* chunk.
C14_Witness ==
    /\ cmp_result = "Ok(false)"
    /\ Len(content[1]) = Len(content[2])
    /\ Len(content[1]) = MaxChunks * BUFFER_LEN + 1
    /\ cmp_reads = MaxChunks + 1

\* The candidate groups that hold path p.
GroupsOf(p) == {g \in 1..Len(input_groups) : p \in MembersOf(input_groups[g])}

\* The place of path p in candidate group g.
PlaceIn(g, p) == CHOOSE i \in 1..Len(input_groups[g]) : input_groups[g][i].paths[1] = p

\* C15: size-bucket isolation.  Every call of compare_file_bytes so far had
\* as arguments two files of one candidate group, of one size: a candidate,
\* and a file taken from the group before it that had not joined a cluster
\* and so is the first member of its own.
C15_SizeBucketIsolation ==
    \A i \in 1..Len(cmp_log) :
        LET candidate == cmp_log[i][1]
            head == cmp_log[i][2]
        IN  /\ candidate # head
            /\ \E g \in GroupsOf(candidate) :
                /\ g \in GroupsOf(head)
                /\ PlaceIn(g, head) > PlaceIn(g, candidate)
            /\ GroupsOf(candidate) = GroupsOf(head)
            /\ Len(content[candidate]) = Len(content[head])
            /\ \A j \in 1..(i - 1) : ~(cmp_log[j][1] = head /\ cmp_log[j][3] = "Ok(true)")

\* Comparisons have been made on two candidate groups whose files have
\* different sizes, and the iterator is drained.
C15_Witness ==
    /\ Drained
    /\ \E i, j \in 1..Len(cmp_log) :
        /\ GroupsOf(cmp_log[i][1]) # GroupsOf(cmp_log[j][1])
        /\ Len(content[cmp_log[i][1]]) # Len(content[cmp_log[j][1]])

\* The candidate groups without those of fewer than 2 members.
WithoutSingletons(groups) == SelectSeq(groups, LAMBDA g : Len(g) >= 2)

\* The groups of a sequence, as a set.
Range(s) == {s[i] : i \in 1..Len(s)}

\* C16: dropping singleton size groups is a pure optimization.  When the
\* iterator is drained and no comparison has failed, the groups it yielded
\* are the groups that group_by_content yields on the same input without the
\* candidate groups of fewer than 2 members, and every yielded group comes
\* from a candidate group of 2 members or more.
C16_SingletonGroupsDropped ==
    (Drained /\ ~CmpFailed) =>
        LET filtered == drain(WithoutSingletons(input_groups), <<>>, <<>>)
        IN  /\ Range(yielded) = Range(filtered)
            /\ Len(yielded) = Len(filtered)
            /\ \A k \in 1..Len(yielded) : \E g \in 1..Len(input_groups) :
                /\ Len(input_groups[g]) >= 2
                /\ MembersOf(yielded[k]) \subseteq MembersOf(input_groups[g])

\* A drained run without failures that yielded a group, on an input that
\* held a candidate group of one member.
C16_Witness ==
    /\ Drained /\ ~CmpFailed
    /\ Len(yielded) >= 1
    /\ \E g \in 1..Len(input_groups) : Len(input_groups[g]) = 1

\* The members of the candidate group handed to regroup are pairwise
\* distinct in content.
AllDistinct(group) ==
    \A f, h \in MembersOf(group) : f # h => content[f] # content[h]

\* regroup has run on the one candidate group of the input.
Regrouped == last.kind # "NotCalled" /\ Len(input_groups) = 1

\* C17, as claimed: comparison count.  On k candidates that are pairwise
\* distinct in content regroup makes at most k comparisons.
C17_LinearComparisons ==
    (Regrouped /\ AllDistinct(input_groups[1])) =>
        Len(cmp_log) <= Len(input_groups[1])

\* C17, amended: on k candidates that are pairwise distinct in content
\* regroup makes k * (k - 1) / 2 comparisons, one for every pair.
C17_PairwiseComparisons ==
    (Regrouped /\ AllDistinct(input_groups[1])) =>
        LET k == Len(input_groups[1])
        IN  /\ 2 * Len(cmp_log) = k * (k - 1)
            /\ \A f, h \in MembersOf(input_groups[1]) :
                f < h => \E i \in 1..Len(cmp_log) : cmp_log[i] = <<f, h, "Ok(false)">>

\* regroup has run on 4 candidates that are pairwise distinct in content.
C17_Witness ==
    /\ Regrouped
    /\ AllDistinct(input_groups[1])
    /\ Len(input_groups[1]) = 4
    /\ Len(cmp_log) = 6

\* The clusters of 2 members or more of a candidate group of readable files:
\* its members sorted by content.
ClustersOf(group) ==
    {S \in {{h \in MembersOf(group) : content[h] = content[f]} : f \in MembersOf(group)} :
        Cardinality(S) >= 2}

\* The clusters of all the candidate groups of a queue.
ClustersOfAll(queue) == UNION {ClustersOf(queue[g]) : g \in 1..Len(queue)}

\* C19: group conservation in the clusterer iterator.  No record is in two
\* yielded groups or twice in one.  next() returns None only when both
\* queues are empty, and from then on returns None again.  As long as no
\* comparison has failed, the groups yielded, those waiting in output_queue
\* and the clusters of the candidate groups still in input_queue are
\* together the clusters of 2 members or more of all the candidate groups,
\* each once: a drained iterator has yielded exactly these.
C19_GroupConservation ==
    /\ \A j, k \in 1..Len(yielded) :
        j # k => MembersOf(yielded[j]) \cap MembersOf(yielded[k]) = {}
    /\ \A k \in 1..Len(yielded) : Cardinality(MembersOf(yielded[k])) = Len(yielded[k])
    /\ Drained =>
        /\ input_queue = <<>> /\ output_queue = <<>>
        /\ \A f \in WideFiles :
            next_loop(input_queue, output_queue, {f}, <<>>).ret.kind = "None"
    /\ ~CmpFailed =>
        LET done == {MembersOf(yielded[k]) : k \in 1..Len(yielded)}
            pending == {MembersOf(output_queue[j]) : j \in 1..Len(output_queue)}
            todo == ClustersOfAll(input_queue)
        IN  /\ done \cup pending \cup todo = ClustersOfAll(input_groups)
            /\ Len(yielded) + Len(output_queue) + Cardinality(todo)
                    = Cardinality(ClustersOfAll(input_groups))

\* A drained iterator that yielded two groups from one candidate group and
\* met no comparison failure.
C19_Witness ==
    /\ Drained /\ ~CmpFailed
    /\ Len(yielded) = 2
    /\ \E g \in 1..Len(input_groups) :
        MembersOf(yielded[1]) \cup MembersOf(yielded[2]) \subseteq MembersOf(input_groups[g])

\* ------------------------------------------------------------------------
\* Properties of both lazy stages
\* ------------------------------------------------------------------------

\* next() of the walker has just returned a record.
WalkerReturnedItem == wpc = "idle" /\ wlast.kind = "Some"

\* next() of the clusterer has just returned a group.
ClustererReturnedItem == last.kind = "Some"

\* The directory a path is an entry of.
DirOf(path) == SubSeq(path, 1, Len(path) - 1)

\* C18, as claimed: bounded look-ahead.  When next() of the walker or of the
\* clusterer has returned an item, the pending buffer of the stage holds at
\* most one further item.
C18_OneItemAhead ==
    /\ WalkerReturnedItem => Len(file_queue) <= 1
    /\ ClustererReturnedItem => Len(output_queue) <= 1

\* C18, amended: when next() has returned an item, the pending buffer holds
\* only what the same unit of work produced.  file_queue holds only further
\* entries of the directory the returned record was listed in, fewer than
\* the directory has entries; output_queue holds only further clusters of
\* the candidate group the returned group came from, each of 2 members or
\* more of that group.
C18_OneUnitAhead ==
    /\ WalkerReturnedItem =>
        LET dir == DirOf(wlast.item.paths[1])
            listed == {e \in 1..Len(fs.entries) : fs.entries[e].parent = resolve(dir)}
        IN  /\ \A i \in 1..Len(file_queue) : DirOf(file_queue[i].paths[1]) = dir
            /\ Len(file_queue) < Cardinality(listed)
    /\ ClustererReturnedItem =>
        \E g \in 1..Len(input_groups) :
            /\ MembersOf(last.item) \subseteq MembersOf(input_groups[g])
            /\ \A j \in 1..Len(output_queue) :
                MembersOf(output_queue[j]) \subseteq MembersOf(input_groups[g])
            /\ 2 * (Len(output_queue) + 1) <= Len(input_groups[g])

\* next() of the walker has returned a record while two more records of the
\* same directory wait in file_queue.
C18_Witness ==
    /\ WalkerReturnedItem
    /\ Len(file_queue) >= 2

====
